---- MODULE Spec2Model ----
(***************************************************************************)
(* Model of the frontend of the agentic writing assistant:                 *)
(*   - generateWriting (lib/api.ts): the streamed POST, its line decoder   *)
(*     and its event parser;                                               *)
(*   - App.handleGenerate and the persisted-data effect (App.tsx);         *)
(*   - StatusMonitor (the per-stage agent data it shows).                  *)
(***************************************************************************)
EXTENDS Integers, Sequences, FiniteSets, TLC

\* ---------------------------------------------------------------- bounds
\* the number of complete (newline-terminated) lines the server sends
MaxLines == 2

\* ---------------------------------------------------------------- values
\* JavaScript null / undefined
Null == [kind |-> "null"]

\* two WritingResponse objects, one per terminal status of the service
WritingResponse ==
  { [kind |-> "response", request_id |-> "r1", status |-> "completed"],
    [kind |-> "response", request_id |-> "r2", status |-> "failed"] }

ResponseOf(id) == CHOOSE r \in WritingResponse : r.request_id = id

\* ---------------------------------------------------------------- bytes
\* The wire is a sequence of bytes.  "P" stands for the six ASCII bytes of
\* 'data: ', "Q" for six ASCII bytes that are not 'data: ' (another field
\* name, such as 'meta: '), "NL" for the line feed, "m" for an ASCII byte
\* inside a JSON string.
\* "C3" "A9" are the two bytes of a two-byte UTF-8 character (e-acute).
\* A JSON text is a head, the characters of its message string, and "}".
ProgressHeads == {"{researching", "{writing"}
CompleteHeads == {"{complete:r1", "{complete:r2", "{complete:null"}
Heads == ProgressHeads \cup CompleteHeads
StrChars == {"m", "E", "?"}

\* TextDecoder.decode(value, {stream: true}): a lead byte waits for its
\* continuation byte, also across calls; a lead byte followed by anything
\* else, and a lone continuation byte, decode to U+FFFD ("?").
RECURSIVE DecodeFrom(_, _, _, _)
DecodeFrom(bytes, i, lead, acc) ==
  IF i > Len(bytes) THEN [chars |-> acc, lead |-> lead]
  ELSE LET b == bytes[i] IN
    IF lead
      THEN IF b = "A9"
             THEN DecodeFrom(bytes, i + 1, FALSE, Append(acc, "E"))
             ELSE DecodeFrom(bytes, i, FALSE, Append(acc, "?"))
      ELSE IF b = "C3" THEN DecodeFrom(bytes, i + 1, TRUE, acc)
           ELSE IF b = "A9" THEN DecodeFrom(bytes, i + 1, FALSE, Append(acc, "?"))
           ELSE DecodeFrom(bytes, i + 1, FALSE, Append(acc, b))

\* a decoder that is not told {stream: true}: every chunk is decoded alone
decode_perChunk(lead, value) ==
  LET d == DecodeFrom(value, 1, FALSE, <<>>) IN
    [chars |-> IF d.lead THEN Append(d.chars, "?") ELSE d.chars, lead |-> FALSE]

decode(lead, value) == DecodeFrom(value, 1, lead, <<>>)

\* String.prototype.split('\n'): k line feeds give k + 1 pieces
RECURSIVE SplitFrom(_, _, _, _)
SplitFrom(s, i, cur, acc) ==
  IF i > Len(s) THEN Append(acc, cur)
  ELSE IF s[i] = "NL" THEN SplitFrom(s, i + 1, <<>>, Append(acc, cur))
  ELSE SplitFrom(s, i + 1, Append(cur, s[i]), acc)

split(s) == SplitFrom(s, 1, <<>>, <<>>)

\* the rest after the last line feed is not kept
pop_dropped(lines) == <<>>

\* lines.pop() || ''
pop(lines) == IF Len(lines) = 0 THEN <<>> ELSE lines[Len(lines)]

\* the array as it was before pop(): the unfinished rest is run as a line too
popped_all(lines) == lines

\* the array after pop()
popped(lines) == IF Len(lines) = 0 THEN <<>> ELSE SubSeq(lines, 1, Len(lines) - 1)

\* a prefix test that accepts every line
startsWith_anyLine(line) == TRUE

\* line.startsWith('data: ')
startsWith(line) == Len(line) >= 1 /\ line[1] = "P"

\* line.slice(6)
slice(line) == SubSeq(line, 2, Len(line))

\* JSON.parse: ok with the value, or a SyntaxError
JSONparse(s) ==
  IF s = <<"null">> THEN [ok |-> TRUE, value |-> Null]
  ELSE IF /\ Len(s) >= 2
          /\ s[1] \in Heads
          /\ s[Len(s)] = "}"
          /\ \A i \in 2..(Len(s) - 1) : s[i] \in StrChars
    THEN [ok |-> TRUE,
          value |-> [kind |-> "event", head |-> s[1], message |-> SubSeq(s, 2, Len(s) - 1)]]
    ELSE [ok |-> FALSE, value |-> Null]

\* data.type === 'complete'
isComplete(data) == data.head \in CompleteHeads

\* result = data: the envelope instead of its data
dataOf_envelope(data) == data

\* data.data
dataOf(data) ==
  IF data.head = "{complete:r1" THEN ResponseOf("r1")
  ELSE IF data.head = "{complete:r2" THEN ResponseOf("r2")
  ELSE Null

\* ---------------------------------------------------------------- the wire
\* the lines a server can send, without their line feed
blankLine == <<>>
otherLine == <<"Q", "{researching", "}">>
progressR == <<"P", "{researching", "}">>
progressW == <<"P", "{writing", "C3", "A9", "}">>
completeOk == <<"P", "{complete:r1", "}">>
completeFailed == <<"P", "{complete:r2", "}">>
completeNull == <<"P", "{complete:null", "}">>
truncatedJson == <<"P", "{researching">>
jsonNull == <<"P", "null">>

LineTemplates ==
  { blankLine, otherLine, progressR, progressW, completeOk, completeFailed,
    completeNull, truncatedJson, jsonNull }

\* what the server may leave after the last line feed
TailTemplates == { <<>>, completeOk }

RECURSIVE Wire(_, _)
Wire(ls, t) ==
  IF Len(ls) = 0 THEN t ELSE Head(ls) \o <<"NL">> \o Wire(Tail(ls), t)

VARIABLES
  frames,    \* the complete lines the server sends on this response body
  tail,      \* the bytes it sends after the last line feed
  onStatus,  \* the StatusListener argument: "absent", "listening", "throwing"
  pc,        \* generateWriting: "fetch", "reading", "settled"
  pos,       \* bytes of the body that reader.read() has returned so far
  lead,      \* the TextDecoder holds the lead byte of an unfinished character
  buffer,    \* let buffer
  result,    \* let result
  calls,     \* the updates onStatus was invoked with, in order
  outcome    \* how the promise settled

VARIABLES
  apiHealthy,         \* App: const [apiHealthy, setApiHealthy]
  loading,            \* App: const [loading, setLoading]
  profile,            \* App: const [profile, setProfile]
  userId,             \* App: const [userId, setUserId]
  appResult,          \* App: const [result, setResult]
  status,             \* App: const [status, setStatus]
  generationHistory,  \* App: const [generationHistory, setGenerationHistory]
  localStorage,       \* window.localStorage: key -> stored text, or Absent
  error,              \* WritingForm: const [error, setError]
  inflight,           \* the handleGenerate calls that have not returned yet
  timers              \* pending setTimeout(() => setStatus(null), 2000)

VARIABLES
  agentData,          \* StatusMonitor: the agentData prop
  applied             \* the progress events applied so far, in order

VARIABLES
  fetchTimer,         \* ProfileForm (part_002): the user id of the pending 500 ms timer
  profileRequests,    \* the user ids with a getProfile request that has not settled
  fields              \* whose profile the form fields show

VARIABLES
  formData,           \* ProfileForm: the form state (firstName ... writingSamples)
  openAccordions,     \* ProfileForm: const [openAccordions, setOpenAccordions]
  isInitialized,      \* ProfileForm: const [isInitialized, setIsInitialized]
  formTimer,          \* the form data the pending 500 ms save will write
  accordionTimer,     \* the accordion state the pending 300 ms save will write
  formStorage,        \* localStorage: awa_form_data and awa_accordion_state
  startForm,          \* what awa_form_data held when the form was mounted
  edited,             \* the form state was changed since the mount
  cleared             \* Clear All was confirmed and nothing was changed since

VARIABLES
  files,              \* WritingSampleUpload: const [files, setFiles]
  isUploading,        \* WritingSampleUpload: const [isUploading, setIsUploading]
  batch,              \* uploadFiles: the files array its loop runs over
  uploadIdx,          \* uploadFiles: the place of the loop in batch
  sent,               \* per file, the uploads the server has accepted
  uploadError         \* WritingSampleUpload: const [error, setError]

streamVars == <<frames, tail, onStatus, pc, pos, lead, buffer, result, calls, outcome>>
appVars == <<apiHealthy, loading, profile, userId, appResult, status, generationHistory,
             localStorage, error, inflight, timers>>
monitorVars == <<agentData, applied>>
lookupVars == <<fetchTimer, profileRequests, fields>>
formVars == <<formData, openAccordions, isInitialized, formTimer, accordionTimer,
              formStorage, startForm, edited, cleared>>
uploadVars == <<files, isUploading, batch, uploadIdx, sent, uploadError>>
sideVars == <<lookupVars, formVars, uploadVars>>
vars == <<streamVars, appVars, monitorVars, sideVars>>

stream == Wire(frames, tail)

Pending == [kind |-> "pending"]
Resolved(v) == [kind |-> "resolved", value |-> v]
Rejected(e) == [kind |-> "rejected", error |-> e]

\* ---------------------------------------------------------------- generateWriting
\* the body of try { ... } for one prefixed line (api.ts 136-144); st.thrown
\* names the exception that left it
ThrowingSink(st, data) ==
  [st EXCEPT !.calls = Append(@, data),
             !.thrown = IF onStatus = "throwing" THEN "ListenerError" ELSE @]

invokeOnStatus(st, data) ==
  IF onStatus = "absent" THEN st ELSE ThrowingSink(st, data)

\* onStatus is invoked before result is assigned
tryBody_sinkFirst(st, line) ==
  LET parsed == JSONparse(slice(line)) IN
  IF ~parsed.ok THEN [st EXCEPT !.thrown = "SyntaxError"]
  ELSE IF parsed.value = Null THEN [st EXCEPT !.thrown = "TypeError"]
  ELSE LET told == invokeOnStatus(st, parsed.value) IN
    IF isComplete(parsed.value) /\ told.thrown = "none"
      THEN [told EXCEPT !.result = dataOf(parsed.value)]
      ELSE told

tryBody(st, line) ==
  LET parsed == JSONparse(slice(line)) IN
  IF ~parsed.ok THEN [st EXCEPT !.thrown = "SyntaxError"]
  ELSE IF parsed.value = Null THEN [st EXCEPT !.thrown = "TypeError"]
  ELSE IF isComplete(parsed.value)
    THEN invokeOnStatus([st EXCEPT !.result = dataOf(parsed.value)], parsed.value)
    ELSE invokeOnStatus(st, parsed.value)

\* a catch block that rethrows
catch_rethrow(st) == st

\* catch { /* Skip invalid JSON lines */ }
catch(st) == [st EXCEPT !.thrown = "none"]

processLine(st, line) ==
  IF startsWith(line) THEN catch(tryBody(st, line)) ELSE st

\* for (const line of lines): an exception that escapes ends the loop
RECURSIVE forLines(_, _, _)
forLines(st, lines, i) ==
  IF i > Len(lines) \/ st.thrown # "none" THEN st
  ELSE forLines(processLine(st, lines[i]), lines, i + 1)

\* one turn of the while loop on a chunk: decode, split, keep the rest, run the lines
onChunk(st, value) ==
  LET d == decode(st.lead, value)
      lines == split(st.buffer \o d.chars)
  IN forLines([st EXCEPT !.lead = d.lead, !.buffer = pop(lines)], popped(lines), 1)

\* what fetch can fail with (response not ok, or fetch itself rejects), and
\* what a rejected reader.read() carries
FetchErrors == {"Failed to start writing stream", "Failed to fetch"}
ReadError == "network error"

\* return result, without the check
settle_unchecked(res) == Resolved(res)

\* if (!result) throw ...; return result
settle(res) ==
  IF res = Null THEN Rejected("No result received from stream") ELSE Resolved(res)

initLocal == [lead |-> FALSE, buffer |-> <<>>, result |-> Null, calls |-> <<>>, thrown |-> "none"]

local == [lead |-> lead, buffer |-> buffer, result |-> result, calls |-> calls, thrown |-> "none"]

StreamInit ==
  /\ frames \in UNION { [1..n -> LineTemplates] : n \in 0..MaxLines }
  /\ tail \in TailTemplates
  /\ onStatus \in {"absent", "listening", "throwing"}
  /\ pc = "fetch"
  /\ pos = 0
  /\ lead = FALSE
  /\ buffer = <<>>
  /\ result = Null
  /\ calls = <<>>
  /\ outcome = Pending

\* await fetch(...); if (!response.ok) throw
FetchOk ==
  /\ pc = "fetch"
  /\ pc' = "reading"
  /\ UNCHANGED <<frames, tail, onStatus, pos, lead, buffer, result, calls, outcome>>
  /\ UNCHANGED <<appVars, monitorVars, sideVars>>

\* the response is checked after its body was read
FetchFails_late ==
  /\ pc = "reading"
  /\ pc' = "settled"
  /\ \E e \in FetchErrors : outcome' = Rejected(e)
  /\ UNCHANGED <<frames, tail, onStatus, pos, lead, buffer, result, calls>>
  /\ UNCHANGED <<appVars, monitorVars, sideVars>>

FetchFails ==
  /\ pc = "fetch"
  /\ pc' = "settled"
  /\ \E e \in FetchErrors : outcome' = Rejected(e)
  /\ UNCHANGED <<frames, tail, onStatus, pos, lead, buffer, result, calls>>
  /\ UNCHANGED <<appVars, monitorVars, sideVars>>

\* reader.read() returns {done: false, value}: any non-empty run of the bytes to come
ReadChunk ==
  /\ pc = "reading"
  /\ \E n \in 1..(Len(stream) - pos) :
       LET st == onChunk(local, SubSeq(stream, pos + 1, pos + n)) IN
         /\ pos' = pos + n
         /\ lead' = st.lead
         /\ buffer' = st.buffer
         /\ result' = st.result
         /\ calls' = st.calls
         /\ IF st.thrown = "none"
              THEN pc' = "reading" /\ outcome' = outcome
              ELSE pc' = "settled" /\ outcome' = Rejected(st.thrown)
  /\ UNCHANGED <<frames, tail, onStatus>>
  /\ UNCHANGED <<appVars, monitorVars, sideVars>>

\* reader.read() returns {done: true}: break, releaseLock, settle
ReadDone ==
  /\ pc = "reading"
  /\ pos = Len(stream)
  /\ pc' = "settled"
  /\ outcome' = settle(result)
  /\ UNCHANGED <<frames, tail, onStatus, pos, lead, buffer, result, calls>>
  /\ UNCHANGED <<appVars, monitorVars, sideVars>>

\* reader.read() rejects: the finally block runs and the error leaves generateWriting
ReadFails ==
  /\ pc = "reading"
  /\ pc' = "settled"
  /\ outcome' = Rejected(ReadError)
  /\ UNCHANGED <<frames, tail, onStatus, pos, lead, buffer, result, calls>>
  /\ UNCHANGED <<appVars, monitorVars, sideVars>>

\* ---------------------------------------------------------------- localStorage and JSON
StorageKeys == {"awa_result", "awa_history"}
Absent == [present |-> FALSE, text |-> <<>>]
Stored(text) == [present |-> TRUE, text |-> text]

\* a JavaScript array of WritingResponse
Arr(items) == [kind |-> "array", items |-> items]

RequestIds == {r.request_id : r \in WritingResponse}
Statuses == {r.status : r \in WritingResponse}

\* JSON.stringify of a WritingResponse, of an array of them, and of null.  The
\* text is a sequence of tokens: braces, brackets and the field values.
stringifyResponse(r) == <<"{", r.request_id, r.status, "}">>

RECURSIVE stringifyItems(_)
stringifyItems(items) ==
  IF Len(items) = 0 THEN <<>>
  ELSE stringifyResponse(Head(items)) \o stringifyItems(Tail(items))

JSONstringify(v) ==
  IF v.kind = "response" THEN stringifyResponse(v)
  ELSE IF v.kind = "array" THEN <<"[">> \o stringifyItems(v.items) \o <<"]">>
  ELSE <<"null">>

\* JSON.parse of a stored text
isResponseAt(s, i) ==
  /\ i + 3 <= Len(s)
  /\ s[i] = "{"
  /\ s[i + 1] \in RequestIds
  /\ s[i + 2] \in Statuses
  /\ s[i + 3] = "}"

responseAt(s, i) == [kind |-> "response", request_id |-> s[i + 1], status |-> s[i + 2]]

parseStored(s) ==
  IF s = <<"null">> THEN [ok |-> TRUE, value |-> Null]
  ELSE IF Len(s) = 4 /\ isResponseAt(s, 1) THEN [ok |-> TRUE, value |-> responseAt(s, 1)]
  ELSE IF /\ Len(s) >= 2
          /\ s[1] = "["
          /\ s[Len(s)] = "]"
          /\ (Len(s) - 2) % 4 = 0
          /\ \A k \in 1..((Len(s) - 2) \div 4) : isResponseAt(s, 4 * k - 2)
    THEN [ok |-> TRUE,
          value |-> Arr([k \in 1..((Len(s) - 2) \div 4) |-> responseAt(s, 4 * k - 2)])]
    ELSE [ok |-> FALSE, value |-> Null]

\* ---------------------------------------------------------------- App
\* const stages = [...] of handleGenerate
stages ==
  << [stage |-> "orchestrating", message |-> "Initializing generation workflow...",
      duration |-> 800],
     [stage |-> "researching", message |-> "Gathering relevant information and context...",
      duration |-> 1500],
     [stage |-> "writing", message |-> "Composing your content...", duration |-> 2000],
     [stage |-> "assessing", message |-> "Evaluating quality metrics...", duration |-> 1000],
     [stage |-> "refining", message |-> "Optimizing and refining content...",
      duration |-> 1200],
     [stage |-> "personalizing", message |-> "Adding personal touches...", duration |-> 800] >>

\* the updateStatus calls of the loop over the stages: two per stage
StageUpdates == 2 * Len(stages)

\* progress is kept in units of 100 / StageUpdates percent
FullProgress == StageUpdates

\* updateStatus(stage, progress, message, details); the timestamp is left out
updateStatus(stage, progress, message, details) ==
  [stage |-> stage, progress |-> progress, message |-> message, details |-> details]

\* the k-th updateStatus call of the loop: the base of stage i, then its middle
stageUpdate(k) ==
  LET i == (k + 1) \div 2 IN
    updateStatus(stages[i].stage, k - 1, stages[i].message,
                 IF k % 2 = 0 THEN "Processing..." ELSE "undefined")

NoStatus == [stage |-> "null", progress |-> 0, message |-> "", details |-> "undefined"]

\* StatusMonitor: the stage it shows for the status and isActive = loading; with
\* no status it shows nothing when idle and 'orchestrating' when active
currentStage(st, isActive) ==
  IF st = NoStatus
    THEN IF isActive THEN "orchestrating" ELSE "hidden"
    ELSE st.stage

\* the state useState starts with, and the effect that loads the persisted data
loadedResult(store) ==
  LET saved == store["awa_result"] IN
    IF ~saved.present \/ saved.text = <<>> THEN Null
    ELSE LET parsed == parseStored(saved.text) IN
      IF parsed.ok THEN parsed.value ELSE Null

loadedHistory(store) ==
  LET saved == store["awa_history"] IN
    IF ~saved.present \/ saved.text = <<>> THEN Arr(<<>>)
    ELSE LET parsed == parseStored(saved.text) IN
      IF parsed.ok THEN parsed.value ELSE Arr(<<>>)

\* a mount that takes a stored result for a generation to resume
Mounted_resuming(store) ==
  /\ apiHealthy' = FALSE
  /\ loading' = (loadedResult(store) # Null)
  /\ profile' = Null
  /\ userId' = "user-1"
  /\ status' = NoStatus
  /\ error' = ""
  /\ inflight' = <<>>
  /\ timers' = 0
  /\ appResult' = loadedResult(store)
  /\ generationHistory' = loadedHistory(store)

Mounted(store) ==
  /\ apiHealthy' = FALSE
  /\ loading' = FALSE
  /\ profile' = Null
  /\ userId' = "user-1"
  /\ status' = NoStatus
  /\ error' = ""
  /\ inflight' = <<>>
  /\ timers' = 0
  /\ appResult' = loadedResult(store)
  /\ generationHistory' = loadedHistory(store)

\* generationHistory.slice(0, 4)
sliceEnd == 4

\* a spread of the whole history, without slice
slice04_all(items) == items

slice04(items) == SubSeq(items, 1, IF Len(items) < sliceEnd THEN Len(items) ELSE sliceEnd)

\* const newHistory = [response, ...generationHistory.slice(0, 4)]
newHistory(response, history) == Arr(<<response>> \o slice04(history.items))

\* the stale state is written instead of newHistory
savedHistory_stale(response, history) == JSONstringify(history)

\* what is written under awa_history
savedHistory(response, history) == JSONstringify(newHistory(response, history))

\* <Button disabled={loading || disabled}>, disabled={!apiHealthy || !profile}
formDisabled == ~apiHealthy \/ profile = Null
buttonDisabled_formOnly == formDisabled

buttonDisabled == loading \/ formDisabled

\* what generateWriting(request) can settle with
GenerateOutcomes ==
  {Resolved(r) : r \in WritingResponse}
    \cup {Rejected(e) : e \in FetchErrors \cup {ReadError, "No result received from stream"}}

removeAt(seq, i) == SubSeq(seq, 1, i - 1) \o SubSeq(seq, i + 1, Len(seq))

AppAtRest ==
  /\ apiHealthy = FALSE
  /\ loading = FALSE
  /\ profile = Null
  /\ userId = "user-1"
  /\ appResult = Null
  /\ status = NoStatus
  /\ generationHistory = Arr(<<>>)
  /\ localStorage = [k \in StorageKeys |-> Absent]
  /\ error = ""
  /\ inflight = <<>>
  /\ timers = 0

\* the page is reloaded: a new App mounts over the same store
Reload ==
  /\ Mounted(localStorage)
  /\ UNCHANGED localStorage
  /\ UNCHANGED <<streamVars, monitorVars, sideVars>>

\* checkHealth().then(setApiHealthy), at mount and every 5 s
HealthCheck ==
  /\ \E ok \in BOOLEAN : apiHealthy' = ok
  /\ apiHealthy' # apiHealthy
  /\ UNCHANGED <<loading, profile, userId, appResult, status, generationHistory,
                 localStorage, error, inflight, timers>>
  /\ UNCHANGED <<streamVars, monitorVars, sideVars>>

\* the User ID input of ProfileForm: onUserIdChange(e.target.value)
UserIds == {"user-1", ""}

UserIdChange ==
  /\ \E id \in UserIds : userId' = id
  /\ userId' # userId
  /\ UNCHANGED <<apiHealthy, loading, profile, appResult, status, generationHistory,
                 localStorage, error, inflight, timers>>
  /\ UNCHANGED <<streamVars, monitorVars, sideVars>>

\* ProfileForm.handleSave: a User ID is required; then onProfileSaved(saved)
ProfileSaved ==
  /\ profile = Null
  /\ userId # ""
  /\ profile' = [kind |-> "profile", user_id |-> userId]
  /\ UNCHANGED <<apiHealthy, loading, userId, appResult, status, generationHistory,
                 localStorage, error, inflight, timers>>
  /\ UNCHANGED <<streamVars, monitorVars, sideVars>>

\* a click on Generate whose form fails handleSubmit's checks
SubmitInvalid ==
  /\ ~buttonDisabled
  /\ error' = "Please fill in the required fields"
  /\ UNCHANGED <<apiHealthy, loading, profile, userId, appResult, status,
                 generationHistory, localStorage, inflight, timers>>
  /\ UNCHANGED <<streamVars, monitorVars, sideVars>>

\* a handleGenerate that does not call setLoading(true)
Submit_noLoading ==
  /\ ~buttonDisabled
  /\ error' = ""
  /\ IF profile = Null
       THEN UNCHANGED <<status, appResult, inflight>>
       ELSE /\ appResult' = Null
            /\ status' = stageUpdate(1)
            /\ inflight' = Append(inflight, [step |-> 1, history |-> generationHistory,
                                             user_id |-> userId])
  /\ UNCHANGED <<apiHealthy, loading, profile, userId, generationHistory, localStorage, timers>>
  /\ UNCHANGED <<streamVars, monitorVars, sideVars>>

\* a click on Generate: handleSubmit, then handleGenerate up to its first await
Submit ==
  /\ ~buttonDisabled
  /\ error' = ""
  /\ IF profile = Null
       THEN UNCHANGED <<loading, status, appResult, inflight>>
       ELSE /\ loading' = TRUE
            /\ appResult' = Null
            /\ status' = stageUpdate(1)
            /\ inflight' = Append(inflight, [step |-> 1, history |-> generationHistory,
                                             user_id |-> userId])
  /\ UNCHANGED <<apiHealthy, profile, userId, generationHistory, localStorage, timers>>
  /\ UNCHANGED <<streamVars, monitorVars, sideVars>>

\* setTimeout(() => setStatus(null), 2000)
clearDelay == 2000

\* totalTime after the first i stages
RECURSIVE totalTime(_)
totalTime(i) == IF i = 0 THEN 0 ELSE totalTime(i - 1) + stages[i].duration

\* The timers are real.  The k-th updateStatus of the loop runs this long after
\* the call began; k = StageUpdates + 1 is the call of generateWriting.
timeOfUpdate(k) ==
  LET i == (k + 1) \div 2 IN
    totalTime(i - 1) + IF k % 2 = 0 THEN stages[i].duration \div 2 ELSE 0

\* a stage timer of a call expires: the next updateStatus, or, after the last
\* stage, the call of generateWriting(request)
StageTick ==
  /\ \E c \in DOMAIN inflight :
       /\ inflight[c].step <= StageUpdates
       \* a timer that clears the status was set before this call began: it
       \* has fired once the call is clearDelay old
       /\ timeOfUpdate(inflight[c].step + 1) >= clearDelay => timers = 0
       /\ inflight' = [inflight EXCEPT ![c].step = @ + 1]
       /\ status' = IF inflight[c].step < StageUpdates
                      THEN stageUpdate(inflight[c].step + 1) ELSE status
  /\ UNCHANGED <<apiHealthy, loading, profile, userId, appResult, generationHistory,
                 localStorage, error, timers>>
  /\ UNCHANGED <<streamVars, monitorVars, sideVars>>

\* generateWriting resolves with response: the rest of the try block, then finally
ResolvesWith(response) ==
  /\ \E c \in DOMAIN inflight :
       /\ inflight[c].step = StageUpdates + 1
       /\ inflight' = removeAt(inflight, c)
       /\ appResult' = response
       /\ IF inflight[c].history.kind = "array"
            THEN /\ generationHistory' = newHistory(response, inflight[c].history)
                 /\ localStorage' =
                      [localStorage EXCEPT
                         !["awa_result"] = Stored(JSONstringify(response)),
                         !["awa_history"] = Stored(savedHistory(response, inflight[c].history))]
                 /\ status' = updateStatus("complete", FullProgress,
                                           "Writing generation complete!", "undefined")
                 /\ timers' = timers + 1
            ELSE /\ status' = updateStatus("error", 0, "Generation failed", "TypeError")
                 /\ UNCHANGED <<generationHistory, localStorage, timers>>
  /\ loading' = FALSE
  /\ UNCHANGED <<apiHealthy, profile, userId, error>>
  /\ UNCHANGED <<streamVars, monitorVars, sideVars>>

Resolves == \E response \in WritingResponse : ResolvesWith(response)

\* a catch block that leaves the status as it is
RejectsWith_statusKept(e) ==
  /\ \E c \in DOMAIN inflight :
       /\ inflight[c].step = StageUpdates + 1
       /\ inflight' = removeAt(inflight, c)
  /\ loading' = FALSE
  /\ UNCHANGED <<apiHealthy, profile, userId, appResult, status, generationHistory,
                 localStorage, error, timers>>
  /\ UNCHANGED <<streamVars, monitorVars, sideVars>>

\* generateWriting rejects with an Error whose message is e: the catch block, then finally
RejectsWith(e) ==
  /\ \E c \in DOMAIN inflight :
       /\ inflight[c].step = StageUpdates + 1
       /\ inflight' = removeAt(inflight, c)
       /\ status' = updateStatus("error", 0, "Generation failed", e)
  /\ loading' = FALSE
  /\ UNCHANGED <<apiHealthy, profile, userId, appResult, generationHistory, localStorage,
                 error, timers>>
  /\ UNCHANGED <<streamVars, monitorVars, sideVars>>

Rejects ==
  \E e \in FetchErrors \cup {ReadError, "No result received from stream"} : RejectsWith(e)

\* setTimeout(() => setStatus(null), 2000) fires
ClearStatus ==
  /\ timers > 0
  /\ timers' = timers - 1
  /\ status' = NoStatus
  /\ UNCHANGED <<apiHealthy, loading, profile, userId, appResult, generationHistory,
                 localStorage, error, inflight>>
  /\ UNCHANGED <<streamVars, monitorVars, sideVars>>

StreamAtRest ==
  /\ frames = <<>>
  /\ tail = <<>>
  /\ onStatus = "absent"
  /\ pc = "fetch"
  /\ pos = 0
  /\ lead = FALSE
  /\ buffer = <<>>
  /\ result = Null
  /\ calls = <<>>
  /\ outcome = Pending

\* ------------------------------------------------- ProfileForm: the stored form
FormKeys == {"awa_form_data", "awa_accordion_state"}

\* a field the stored object does not have (or, for a list, that is no array)
Missing == "undefined"

\* the form state, by one text field and one list field (the list as its JSON)
FormValues == [firstName : {"", "Ann"}, education : {"[]", "[e1]"}]

\* useState('') and useState([])
DefaultForm == [firstName |-> "", education |-> "[]"]

\* the open accordions: ['writing'] at first
AccordionValues == {"[writing]", "[]", "[personal]"}
DefaultAccordions == "[writing]"

NoItem == [kind |-> "absent"]

\* what awa_form_data can hold: nothing, '', text that does not parse, null, or
\* an object that has each field or not
StoredForms ==
  {NoItem, [kind |-> "empty"], [kind |-> "corrupt"], [kind |-> "null"]}
    \cup [kind : {"object"},
          firstName : {"", "Ann", Missing},
          education : {"[]", "[e1]", Missing}]

\* what awa_accordion_state can hold
StoredAccordions ==
  {NoItem, [kind |-> "corrupt"], [kind |-> "null"]}
    \cup [kind : {"array"}, value : AccordionValues]

\* JSON.stringify(formData)
stringifyForm(form) ==
  [kind |-> "object", firstName |-> form.firstName, education |-> form.education]

\* JSON.stringify(openAccordions)
stringifyAccordions(open) == [kind |-> "array", value |-> open]

\* a load that ignores what is stored
loadedForm_defaults(item) == DefaultForm

\* the load effect on awa_form_data: each field that is there replaces the
\* default; '' is skipped, a parse failure and null.firstName are caught
loadedForm(item) ==
  IF item.kind = "object"
  THEN [firstName |-> IF item.firstName # Missing THEN item.firstName
                      ELSE DefaultForm.firstName,
        education |-> IF item.education # Missing THEN item.education
                      ELSE DefaultForm.education]
  ELSE DefaultForm

\* the load effect on awa_accordion_state: only an array is taken
loadedAccordions(item) ==
  IF item.kind = "array" THEN item.value ELSE DefaultAccordions

NoTimer == [kind |-> "none"]
Scheduled(data) == [kind |-> "pending", data |-> data]

\* the component before its effects have run
Unmounted ==
  /\ formData = DefaultForm
  /\ openAccordions = DefaultAccordions
  /\ isInitialized = FALSE
  /\ formTimer = NoTimer
  /\ accordionTimer = NoTimer
  /\ edited = FALSE
  /\ cleared = FALSE

FormAtRest ==
  /\ Unmounted
  /\ formStorage = [k \in FormKeys |-> NoItem]
  /\ startForm = NoItem

\* the first commit: the load effect sets the state and isInitialized, the save
\* effects of that render return at once, those of the next render set timers
FormMount ==
  /\ ~isInitialized
  /\ formData' = loadedForm(formStorage["awa_form_data"])
  /\ openAccordions' = loadedAccordions(formStorage["awa_accordion_state"])
  /\ isInitialized' = TRUE
  /\ formTimer' = Scheduled(formData')
  /\ accordionTimer' = Scheduled(openAccordions')
  /\ UNCHANGED <<formStorage, startForm, edited, cleared>>
  /\ UNCHANGED <<streamVars, appVars, monitorVars, lookupVars, uploadVars>>

\* the user changes a field: the save effect's cleanup and a new 500 ms timer
EditForm ==
  /\ isInitialized
  /\ \E form \in FormValues \ {formData} :
       /\ formData' = form
       /\ formTimer' = Scheduled(form)
  /\ edited' = TRUE
  /\ cleared' = FALSE
  /\ UNCHANGED <<openAccordions, isInitialized, accordionTimer, formStorage, startForm>>
  /\ UNCHANGED <<streamVars, appVars, monitorVars, lookupVars, uploadVars>>

\* the user opens or closes a section: a new 300 ms timer
ToggleAccordion ==
  /\ isInitialized
  /\ \E open \in AccordionValues \ {openAccordions} :
       /\ openAccordions' = open
       /\ accordionTimer' = Scheduled(open)
  /\ cleared' = FALSE
  /\ UNCHANGED <<formData, isInitialized, formTimer, formStorage, startForm, edited>>
  /\ UNCHANGED <<streamVars, appVars, monitorVars, lookupVars, uploadVars>>

\* the 500 ms timer: localStorage.setItem('awa_form_data', JSON.stringify(formData))
FormTimerFires ==
  /\ formTimer.kind = "pending"
  /\ formStorage' = [formStorage EXCEPT !["awa_form_data"] = stringifyForm(formTimer.data)]
  /\ formTimer' = NoTimer
  /\ UNCHANGED <<formData, openAccordions, isInitialized, accordionTimer, startForm,
                 edited, cleared>>
  /\ UNCHANGED <<streamVars, appVars, monitorVars, lookupVars, uploadVars>>

\* the 300 ms timer: localStorage.setItem('awa_accordion_state', ...)
AccordionTimerFires ==
  /\ accordionTimer.kind = "pending"
  /\ formStorage' = [formStorage EXCEPT
                       !["awa_accordion_state"] = stringifyAccordions(accordionTimer.data)]
  /\ accordionTimer' = NoTimer
  /\ UNCHANGED <<formData, openAccordions, isInitialized, formTimer, startForm,
                 edited, cleared>>
  /\ UNCHANGED <<streamVars, appVars, monitorVars, lookupVars, uploadVars>>

\* handleClearAll, confirmed: every field is set to a new default value (the lists
\* to new arrays), both keys are removed; the state change runs both save effects
handleClearAll ==
  /\ isInitialized
  /\ formData' = DefaultForm
  /\ openAccordions' = "[]"
  /\ formStorage' = [k \in FormKeys |-> NoItem]
  /\ formTimer' = Scheduled(formData')
  /\ accordionTimer' = Scheduled(openAccordions')
  /\ edited' = TRUE
  /\ cleared' = TRUE
  /\ UNCHANGED <<isInitialized, startForm>>
  /\ UNCHANGED <<streamVars, appVars, monitorVars, lookupVars, uploadVars>>

\* the page is loaded again: the state and the timers are gone, the storage stays
FormReload ==
  /\ isInitialized
  /\ formData' = DefaultForm
  /\ openAccordions' = DefaultAccordions
  /\ isInitialized' = FALSE
  /\ formTimer' = NoTimer
  /\ accordionTimer' = NoTimer
  /\ startForm' = formStorage["awa_form_data"]
  /\ edited' = FALSE
  /\ cleared' = FALSE
  /\ UNCHANGED formStorage
  /\ UNCHANGED <<streamVars, appVars, monitorVars, lookupVars, uploadVars>>

FormNext ==
  \/ FormMount
  \/ EditForm
  \/ ToggleAccordion
  \/ FormTimerFires
  \/ AccordionTimerFires
  \/ handleClearAll
  \/ FormReload

\* ------------------------------------------------- WritingSampleUpload
\* the files the user picks
MaxFiles == 2

\* the uploads of one file the server is followed through
MaxSends == 2

FileIds == 1..MaxFiles

Range(seq) == {seq[i] : i \in 1..Len(seq)}

\* for (const file of files): the files of the render that was clicked
retryBatch(pending, accepted) == pending

UploadAtRest ==
  /\ files = <<>>
  /\ isUploading = FALSE
  /\ batch = <<>>
  /\ uploadIdx = 0
  /\ sent = [f \in FileIds |-> 0]
  /\ uploadError = FALSE

\* onDrop: setFiles(prev => [...prev, ...validFiles]); the dropzone is disabled
\* during an upload
onDrop ==
  /\ ~isUploading
  /\ \E f \in FileIds \ Range(files) :
       /\ sent[f] = 0
       /\ files' = Append(files, f)
  /\ UNCHANGED <<isUploading, batch, uploadIdx, sent, uploadError>>
  /\ UNCHANGED <<streamVars, appVars, monitorVars, lookupVars, formVars>>

\* removeFile(index); its button is disabled during an upload
removeFile ==
  /\ ~isUploading
  /\ \E index \in 1..Len(files) : files' = removeAt(files, index)
  /\ UNCHANGED <<isUploading, batch, uploadIdx, sent, uploadError>>
  /\ UNCHANGED <<streamVars, appVars, monitorVars, lookupVars, formVars>>

\* uploadFiles up to its first await; the button is disabled during an upload
uploadFiles ==
  /\ ~isUploading
  /\ files # <<>>
  /\ isUploading' = TRUE
  /\ uploadError' = FALSE
  /\ batch' = retryBatch(files, sent)
  /\ uploadIdx' = 1
  /\ UNCHANGED <<files, sent>>
  /\ UNCHANGED <<streamVars, appVars, monitorVars, lookupVars, formVars>>

\* await uploadWritingSampleFile(...) resolves: the server has stored the file
UploadAccepted ==
  /\ isUploading
  /\ uploadIdx \in 1..Len(batch)
  /\ sent[batch[uploadIdx]] < MaxSends
  /\ sent' = [sent EXCEPT ![batch[uploadIdx]] = @ + 1]
  /\ uploadIdx' = uploadIdx + 1
  /\ UNCHANGED <<files, isUploading, batch, uploadError>>
  /\ UNCHANGED <<streamVars, appVars, monitorVars, lookupVars, formVars>>

\* await uploadWritingSampleFile(...) rejects: catch sets the error, finally ends
\* the upload; files is left as it was
UploadRejected ==
  /\ isUploading
  /\ uploadIdx \in 1..Len(batch)
  /\ uploadError' = TRUE
  /\ isUploading' = FALSE
  /\ batch' = <<>>
  /\ uploadIdx' = 0
  /\ UNCHANGED <<files, sent>>
  /\ UNCHANGED <<streamVars, appVars, monitorVars, lookupVars, formVars>>

\* after the loop: getWritingSamples resolves, setFiles([])
SamplesLoaded ==
  /\ isUploading
  /\ uploadIdx = Len(batch) + 1
  /\ files' = <<>>
  /\ isUploading' = FALSE
  /\ batch' = <<>>
  /\ uploadIdx' = 0
  /\ UNCHANGED <<sent, uploadError>>
  /\ UNCHANGED <<streamVars, appVars, monitorVars, lookupVars, formVars>>

\* after the loop: await getWritingSamples(userId) rejects, setFiles is not reached
SamplesRejected ==
  /\ isUploading
  /\ uploadIdx = Len(batch) + 1
  /\ uploadError' = TRUE
  /\ isUploading' = FALSE
  /\ batch' = <<>>
  /\ uploadIdx' = 0
  /\ UNCHANGED <<files, sent>>
  /\ UNCHANGED <<streamVars, appVars, monitorVars, lookupVars, formVars>>

UploadNext ==
  \/ onDrop
  \/ removeFile
  \/ uploadFiles
  \/ UploadAccepted
  \/ UploadRejected
  \/ SamplesLoaded
  \/ SamplesRejected

\* ------------------------------------------------- ProfileForm: loading a profile
\* the user ids typed into the User ID field; "" is the empty field
ProfileIds == {"user-1", "user-2", "user-3", ""}

\* the user ids the server has a profile for
StoredProfiles == {"user-1", "user-2"}

\* the initial values of name, background, skills, tone, style
DefaultFields == "defaults"

\* getProfile(id): the profile, or null on 404 and on any error
getProfile(id) == IF id \in StoredProfiles THEN id ELSE "null"

\* the then-callback: the profile's values, or the defaults for null
shownFor(id) == IF getProfile(id) # "null" THEN id ELSE DefaultFields

\* the effect body for a user id: nothing for a blank id, else a 500 ms timer
timerFor(id) == IF id = "" THEN "none" ELSE id

LookupAtRest ==
  /\ fetchTimer = "none"
  /\ profileRequests = {}
  /\ fields = DefaultFields

SideAtRest == LookupAtRest /\ FormAtRest /\ UploadAtRest

\* the User ID field changes: the cleanup clears the timer, the effect runs again
TypeUserId ==
  /\ \E id \in ProfileIds \ {userId} :
       /\ userId' = id
       /\ fetchTimer' = timerFor(id)
  /\ UNCHANGED <<profileRequests, fields>>
  /\ UNCHANGED <<apiHealthy, loading, profile, appResult, status, generationHistory,
                 localStorage, error, inflight, timers>>
  /\ UNCHANGED <<streamVars, monitorVars, formVars, uploadVars>>

\* the 500 ms timer fires: getProfile(userId) is requested
FetchTimerFires ==
  /\ fetchTimer # "none"
  /\ profileRequests' = profileRequests \cup {fetchTimer}
  /\ fetchTimer' = "none"
  /\ UNCHANGED fields
  /\ UNCHANGED <<streamVars, appVars, monitorVars, formVars, uploadVars>>

\* a getProfile promise resolves, in whatever order the network answers
ProfileArrives ==
  /\ \E id \in profileRequests :
       /\ profileRequests' = profileRequests \ {id}
       /\ fields' = shownFor(id)
  /\ UNCHANGED fetchTimer
  /\ UNCHANGED <<streamVars, appVars, monitorVars, formVars, uploadVars>>

ProfileNext == TypeUserId \/ FetchTimerFires \/ ProfileArrives

\* ---------------------------------------------------------------- StatusMonitor
\* the number of progress events of a session
MaxEvents == 3

StageIds == {"researching", "writing"}
Undefined == "undefined"
Payloads == {"A", "B", "C", ""}
ProgressEvents == [stage : StageIds, payload : Payloads \cup {Undefined}]

\* on a progress event: if it carries a payload, stagePayloads[stage] = payload
applyPayload(data, event) ==
  IF event.payload # Undefined THEN [data EXCEPT ![event.stage] = event.payload] ELSE data

\* a filter on truthiness instead of !== undefined
agentsWithData_truthy == {stage \in StageIds : agentData[stage] \notin {Undefined, ""}}

\* Object.keys(agentData).filter(stage => agentData[stage] !== undefined)
agentsWithData == {stage \in StageIds : agentData[stage] # Undefined}

MonitorAtRest ==
  /\ agentData = [stage \in StageIds |-> Undefined]
  /\ applied = <<>>

ApplyProgress ==
  /\ Len(applied) < MaxEvents
  /\ \E event \in ProgressEvents :
       /\ agentData' = applyPayload(agentData, event)
       /\ applied' = Append(applied, event)
  /\ UNCHANGED <<streamVars, appVars, sideVars>>

MonitorNext == ApplyProgress

\* the agent data of one session
MonitorInit == MonitorAtRest /\ StreamAtRest /\ AppAtRest /\ SideAtRest

MonitorSpec == MonitorInit /\ [][MonitorNext]_vars

AppNext ==
  \/ Reload \/ HealthCheck \/ UserIdChange \/ ProfileSaved \/ SubmitInvalid \/ Submit
  \/ StageTick \/ Resolves \/ Rejects \/ ClearStatus

\* the App from the opening of the page on
\* the page is opened with an empty store
AppInit == AppAtRest /\ StreamAtRest /\ MonitorAtRest /\ SideAtRest

AppSpec == AppInit /\ [][AppNext]_vars
\* ---------------------------------------------------------------- a page opened over any store
\* what a key of localStorage may hold when the page is opened: nothing, the
\* empty string, a text that is not JSON, null, a result, a list of results
StoredValues ==
  { Absent, Stored(<<>>), Stored(<<"{">>), Stored(<<"null">>),
    Stored(JSONstringify(ResponseOf("r1"))),
    Stored(JSONstringify(Arr(<<ResponseOf("r2")>>))) }

\* the App after its first render and its load effect
RestoreInit ==
  /\ localStorage \in [StorageKeys -> StoredValues]
  /\ apiHealthy = FALSE
  /\ loading = FALSE
  /\ profile = Null
  /\ userId = "user-1"
  /\ status = NoStatus
  /\ error = ""
  /\ inflight = <<>>
  /\ timers = 0
  /\ appResult = loadedResult(localStorage)
  /\ generationHistory = loadedHistory(localStorage)
  /\ StreamAtRest
  /\ MonitorAtRest
  /\ SideAtRest

RestoreNext ==
  \/ Reload \/ HealthCheck \/ UserIdChange \/ ProfileSaved \/ SubmitInvalid \/ Submit
  \/ StageTick \/ Resolves \/ Rejects \/ ClearStatus

RestoreSpec == RestoreInit /\ [][RestoreNext]_vars

\* ---------------------------------------------------------------- one generation, end to end
\* handleGenerate is at `await generateWriting(request)`
Requesting == Len(inflight) = 1 /\ inflight[1].step = StageUpdates + 1

\* the first click on Generate of a page
SessionSubmit == pc = "fetch" /\ Submit

\* the stage timers before the last one
SessionStageTick == Len(inflight) = 1 /\ inflight[1].step < StageUpdates /\ StageTick

\* the last stage timer expires and generateWriting(request) is called, with
\* no onStatus (part_001 103); the service answers with some body
CallGenerateWriting ==
  /\ Len(inflight) = 1
  /\ inflight[1].step = StageUpdates
  /\ inflight' = [inflight EXCEPT ![1].step = @ + 1]
  /\ frames' \in UNION { [1..n -> LineTemplates] : n \in 0..MaxLines }
  /\ tail' \in TailTemplates
  /\ UNCHANGED <<onStatus, pc, pos, lead, buffer, result, calls, outcome>>
  /\ UNCHANGED <<apiHealthy, loading, profile, userId, appResult, status, generationHistory,
                 localStorage, error, timers>>
  /\ UNCHANGED <<monitorVars, sideVars>>

SessionFetchOk == Requesting /\ FetchOk
SessionFetchFails == Requesting /\ FetchFails
SessionReadChunk == Requesting /\ ReadChunk
SessionReadDone == Requesting /\ ReadDone
SessionReadFails == Requesting /\ ReadFails

\* the awaited promise settles and handleGenerate goes on
SessionResolves ==
  /\ pc = "settled"
  /\ outcome.kind = "resolved"
  /\ ResolvesWith(outcome.value)

SessionRejects ==
  /\ pc = "settled"
  /\ outcome.kind = "rejected"
  /\ RejectsWith(outcome.error)

SessionNext ==
  \/ HealthCheck \/ ProfileSaved \/ SubmitInvalid \/ ClearStatus
  \/ SessionSubmit \/ SessionStageTick \/ CallGenerateWriting
  \/ SessionFetchOk \/ SessionFetchFails \/ SessionReadChunk \/ SessionReadDone
  \/ SessionReadFails \/ SessionResolves \/ SessionRejects

\* a page from its opening, with an empty store, to the end of its first generation
SessionInit == AppAtRest /\ StreamAtRest /\ MonitorAtRest /\ SideAtRest

SessionSpec == SessionInit /\ [][SessionNext]_vars

\* the form mounted for user-1: the effect has set its timer
ProfileInit ==
  /\ StreamAtRest
  /\ AppAtRest
  /\ MonitorAtRest
  /\ fetchTimer = timerFor("user-1")
  /\ profileRequests = {}
  /\ fields = DefaultFields
  /\ FormAtRest
  /\ UploadAtRest

ProfileSpec == ProfileInit /\ [][ProfileNext]_vars

\* the form opened over whatever the two keys hold
FormInit ==
  /\ StreamAtRest
  /\ AppAtRest
  /\ MonitorAtRest
  /\ LookupAtRest
  /\ UploadAtRest
  /\ Unmounted
  /\ formStorage \in [FormKeys -> StoredForms \cup StoredAccordions]
  /\ formStorage["awa_form_data"] \in StoredForms
  /\ formStorage["awa_accordion_state"] \in StoredAccordions
  /\ startForm = formStorage["awa_form_data"]

FormSpec == FormInit /\ [][FormNext]_vars

\* the uploader with no file picked
UploadInit ==
  /\ StreamAtRest
  /\ AppAtRest
  /\ MonitorAtRest
  /\ LookupAtRest
  /\ FormAtRest
  /\ UploadAtRest

UploadSpec == UploadInit /\ [][UploadNext]_vars

\* ---------------------------------------------------------------- specifications
\* one call of generateWriting on one response body
Init == StreamInit /\ AppAtRest /\ MonitorAtRest /\ SideAtRest

Next == FetchOk \/ FetchFails \/ ReadChunk \/ ReadDone \/ ReadFails

Spec == Init /\ [][Next]_vars

\* ================================================================ claims
\* what the frames of the wire stand for
ProgressFrames == {progressR, progressW}
ResultFrames == {completeOk, completeFailed}

updateOf(f) ==
  [kind |-> "event", head |-> f[2], message |-> IF f = progressW THEN <<"E">> ELSE <<>>]

resultOf(f) == IF f = completeOk THEN ResponseOf("r1") ELSE ResponseOf("r2")

Occurrences(seq, e) == Cardinality({i \in DOMAIN seq : seq[i] = e})

\* the promise was rejected by the transport (fetch or read), not by the decoder
TransportFailed ==
  outcome.kind = "rejected" /\ outcome.error \in FetchErrors \cup {ReadError}

\* generateWriting settled after the body was read to its end
Ended == pc = "settled" /\ ~TransportFailed

\* progress frames, then one completion frame that carries a result, then the end
ValidSession ==
  /\ tail = <<>>
  /\ Len(frames) >= 1
  /\ frames[Len(frames)] \in ResultFrames
  /\ \A i \in 1..(Len(frames) - 1) : frames[i] \in ProgressFrames

\* the frames before the first `without`-free position: frames with some templates removed
framesWithout(S) == SelectSeq(frames, LAMBDA f : f \notin S)

\* the whole of a byte stream read as one chunk
oneChunk(s) == onChunk(initLocal, s)

\* the complete lines among the bytes read so far
linesRead == Cardinality({i \in 1..pos : stream[i] = "NL"})

\* C1: a stream of valid progress frames, one completion frame and the end
\* makes generateWriting resolve with the completion frame's data, and
\* onStatus has been invoked at least once per frame, completion included.
C1_ResolvesWithCompletionData ==
  (Ended /\ ValidSession) =>
    /\ outcome = Resolved(resultOf(frames[Len(frames)]))
    /\ onStatus # "absent" =>
         \A i \in DOMAIN frames :
           Occurrences(calls, updateOf(frames[i])) >= Occurrences(frames, frames[i])

C1_Witness ==
  /\ Ended /\ ValidSession
  /\ Len(frames) = 2 /\ frames[1] = progressW
  /\ onStatus = "listening"
  /\ outcome.kind = "resolved"
  /\ Len(calls) = 2

\* C2: however the bytes read so far were cut into chunks, the updates passed to
\* onStatus and the result are those of the same bytes read as one chunk, and
\* at the end of the body the promise settles as it does for one chunk.
C2_ChunkBoundaryInvariant ==
  LET ref == oneChunk(SubSeq(stream, 1, pos)) IN
    /\ calls = ref.calls
    /\ result = ref.result
    /\ Ended => outcome = settle(ref.result)

\* a chunk ended between the two bytes of a character, in the middle of a
\* line, after an earlier line had been delivered
C2_Witness ==
  /\ pc = "reading"
  /\ lead
  /\ buffer # <<>>
  /\ Len(calls) >= 1

\* C3 (as claimed): a completion frame that was received makes the promise
\* resolve with its result, whatever its status; the promise rejects only when
\* no completion frame with a result was received, and then nothing is resolved.
C3_ResolvesIffResultReceived ==
  pc = "settled" =>
    LET got == {i \in 1..linesRead : frames[i] \in ResultFrames} IN
      /\ got # {} =>
           /\ outcome.kind = "resolved"
           /\ \E i \in got : outcome.value = resultOf(frames[i])
      /\ got = {} => outcome.kind = "rejected"

\* C4 (as claimed): once a completion frame has set the result, no later frame
\* reaches onStatus or replaces the result.
C4_TerminalAbsorbs ==
  [][result # Null => (calls' = calls /\ result' = result)]_vars

\* C5: a `data: ` line whose rest is not valid JSON never raises and changes
\* nothing: the updates and the outcome are those of the stream without it.
C5_InvalidJsonIsSkipped ==
  /\ pc = "settled" =>
       ~(outcome.kind = "rejected" /\ outcome.error \in {"SyntaxError", "TypeError"})
  /\ Ended =>
       LET ref == oneChunk(Wire(framesWithout({truncatedJson}), tail)) IN
         /\ calls = ref.calls
         /\ outcome = settle(ref.result)

C5_Witness ==
  /\ Ended
  /\ frames = <<truncatedJson, completeOk>>
  /\ onStatus = "listening"
  /\ outcome = Resolved(ResponseOf("r1"))
  /\ Len(calls) = 1

\* C6: a line that does not start with `data: `, blank lines included, changes
\* nothing: the updates and the outcome are those of the stream without it.
C6_UnprefixedLineIsIgnored ==
  Ended =>
    LET ref == oneChunk(Wire(framesWithout({blankLine, otherLine}), tail)) IN
      /\ calls = ref.calls
      /\ outcome = settle(ref.result)

C6_Witness ==
  /\ Ended
  /\ frames = <<otherLine, progressW>>
  /\ tail = completeOk
  /\ onStatus = "listening"
  /\ Len(calls) = 1

\* the errors generateWriting rejects with when nobody cancelled
OrdinaryErrors == FetchErrors \cup {ReadError, "No result received from stream"}

\* C7 (as claimed): while the stream is being read, the caller can cancel: a
\* step exists that rejects the promise with an error that tells a
\* cancellation from every other failure.
C7_CancelRejectsDistinguishably ==
  pc = "reading" =>
    ENABLED (Next /\ outcome'.kind = "rejected" /\ outcome'.error \notin OrdinaryErrors)

\* C8: at most one handleGenerate call is in flight at any time, so no second
\* generateWriting request is started while one call has not finished.
C8_SingleFlight == Len(inflight) <= 1

\* a second generation has its request in flight, and only `loading` keeps
\* the Generate button disabled
C8_Witness ==
  /\ Len(inflight) = 1
  /\ inflight[1].step = StageUpdates + 1
  /\ loading
  /\ ~formDisabled
  /\ generationHistory.kind = "array"
  /\ Len(generationHistory.items) >= 1

\* the latest payload that the events applied so far carried for a stage
lastPayload(stage) ==
  LET carrying == {i \in DOMAIN applied :
                      applied[i].stage = stage /\ applied[i].payload # Undefined}
  IN IF carrying = {} THEN Undefined
     ELSE applied[CHOOSE i \in carrying : \A j \in carrying : j <= i].payload

C11_HistoryBoundedNewestFirst ==
  [][/\ Len(generationHistory'.items) <= 5
     /\ Resolves =>
          LET old == generationHistory.items IN
            /\ generationHistory'.items[1] = appResult'
            /\ Tail(generationHistory'.items) =
                 SubSeq(old, 1, IF Len(old) < 5 THEN Len(old) ELSE 4)]_vars

\* a full history whose newest entry is the result of a failed generation
C11_Witness ==
  /\ Len(generationHistory.items) = 5
  /\ status.stage = "complete"
  /\ generationHistory.items[1] = appResult
  /\ appResult.status = "failed"
  /\ generationHistory.items[5].status = "completed"
  /\ localStorage["awa_history"] = Stored(JSONstringify(generationHistory))

\* C12 (as claimed): when generateWriting resolves, the status shows stage
\* complete with full progress if the result's status is completed, and stage
\* error, without full progress, otherwise.
C12_StageFollowsResultStatus ==
  [][Resolves =>
       IF appResult'.status = "completed"
         THEN status'.stage = "complete" /\ status'.progress = FullProgress
         ELSE status'.stage = "error" /\ status'.progress # FullProgress]_vars

\* the three completion lines
CompleteFrames == {completeOk, completeFailed, completeNull}

\* no completion line is among the lines read so far
NoCompletionSeen == \A i \in 1..linesRead : frames[i] \notin CompleteFrames

\* handleGenerate has returned after its generateWriting call settled
SessionEnded == pc = "settled" /\ inflight = <<>>

\* C13: while no completion line has been read the status never shows stage
\* complete, and a generation that ends so (the transport failed, or the body
\* ended) ends with stage error and the failure's message in the status.
C13_NoCompletionEndsInError ==
  NoCompletionSeen =>
    /\ status.stage # "complete"
    /\ SessionEnded =>
         /\ outcome.kind = "rejected"
         /\ status.stage = "error"
         /\ status.details = outcome.error

\* the connection broke after one progress line had been read
C13_Witness ==
  /\ SessionEnded
  /\ NoCompletionSeen
  /\ frames = <<progressW, completeOk>>
  /\ linesRead = 1
  /\ outcome = Rejected(ReadError)
  /\ status = updateStatus("error", 0, "Generation failed", ReadError)
  /\ ~loading

\* C14 (as claimed): a generation begins only with a saved profile and a
\* non-empty user_id, and a click whose form lacks a required field begins
\* none and shows an error instead.
C14_InvalidRequestIsNotSent ==
  [][/\ Len(inflight') > Len(inflight) => (profile # Null /\ userId # "")
     /\ SubmitInvalid => (inflight' = inflight /\ error' # "")]_vars

\* the lines that carry an event: a progress update or a completion
EventFrames == ProgressFrames \cup CompleteFrames

\* the events of the complete lines read so far, in the order of the lines
eventsRead ==
  LET sel == SelectSeq(SubSeq(frames, 1, linesRead), LAMBDA f : f \in EventFrames)
  IN [i \in DOMAIN sel |-> updateOf(sel[i])]

\* C15: onStatus has been invoked with exactly the events of the lines read so
\* far, once each and in the order of the lines, however the bytes were cut
\* into chunks.
C15_EventsInStreamOrder ==
  onStatus # "absent" => calls = eventsRead

\* two different events were delivered in the order of their lines, and the
\* body goes on with an unfinished line
C15_Witness ==
  /\ pc = "reading"
  /\ onStatus = "listening"
  /\ frames = <<progressW, progressR>>
  /\ tail = completeOk
  /\ calls = <<updateOf(progressW), updateOf(progressR)>>
  /\ buffer # <<>>

\* C16 (as claimed): once a completion line has set the result, generateWriting
\* has settled with that result: it waits for no further read and runs no
\* further line.
C16_SettlesAtCompletion ==
  result # Null => (pc = "settled" /\ outcome = Resolved(result))

\* C17: what the body holds after its last line feed is never parsed: when
\* the body has ended, the onStatus calls and the outcome are those of the body
\* without it, and a completion frame that no line feed ends gives no result.
C17_UnterminatedTailIsDiscarded ==
  Ended =>
    LET ref == oneChunk(Wire(frames, <<>>)) IN
      /\ calls = ref.calls
      /\ outcome = settle(ref.result)
      /\ (\A i \in DOMAIN frames : frames[i] \notin ResultFrames) =>
           outcome = Rejected("No result received from stream")

\* the body ended with a completion frame without its line feed
C17_Witness ==
  /\ Ended
  /\ frames = <<progressR>>
  /\ tail = completeOk
  /\ buffer = completeOk
  /\ onStatus = "listening"
  /\ calls = <<updateOf(progressR)>>
  /\ outcome = Rejected("No result received from stream")

\* C18 (as claimed): while a generation is in flight, the status changes only
\* to a later update of that generation; the timer set by an earlier
\* generation does not touch it.
C18_ClearTimerSparesLaterGeneration ==
  [][(inflight # <<>> /\ inflight' # <<>> /\ status' # status) =>
       status' = stageUpdate(inflight'[1].step)]_vars

\* onStatus was invoked with a completion update
CompletionObserved == \E i \in DOMAIN calls : calls[i].head \in CompleteHeads

lastCompletion ==
  LET at == {i \in DOMAIN frames : frames[i] \in CompleteFrames} IN
    IF at = {} THEN <<>>
    ELSE frames[CHOOSE i \in at : \A j \in at : j <= i]

lastCompletionRead ==
  LET at == {i \in 1..linesRead : frames[i] \in CompleteFrames} IN
    IF at = {} THEN <<>>
    ELSE frames[CHOOSE i \in at : \A j \in at : j <= i]

\* C20: with an onStatus that throws on every frame, generateWriting never
\* rejects with the listener's error, every event line read is still handed to
\* onStatus, and the result is that of the last completion line read.
C20_ThrowingListenerIsSwallowed ==
  onStatus = "throwing" =>
    /\ ~(outcome.kind = "rejected" /\ outcome.error = "ListenerError")
    /\ calls = eventsRead
    /\ result = IF lastCompletionRead \in ResultFrames
                  THEN resultOf(lastCompletionRead) ELSE Null
    /\ Ended => outcome = settle(result)

\* onStatus threw on the completion frame and on the frame after it, and the
\* call resolved with the completion frame's data
C20_Witness ==
  /\ onStatus = "throwing"
  /\ Ended
  /\ frames = <<completeFailed, progressW>>
  /\ Len(calls) = 2
  /\ outcome = Resolved(ResponseOf("r2"))

\* C21 (as claimed): whenever no generation is in flight, the result and the
\* history in memory are those a reload would load from awa_result and
\* awa_history.
C21_MemoryMatchesStorageAtRest ==
  inflight = <<>> =>
    /\ appResult = loadedResult(localStorage)
    /\ generationHistory = loadedHistory(localStorage)

C23_ConnectionFailureReadsNothing ==
  (outcome.kind = "rejected" /\ outcome.error \in FetchErrors) =>
    /\ pc = "settled"
    /\ pos = 0
    /\ buffer = <<>>
    /\ calls = <<>>
    /\ result = Null

\* the response was not ok, though its body held a progress and a completion line
C23_Witness ==
  /\ outcome = Rejected("Failed to start writing stream")
  /\ frames = <<progressR, completeOk>>
  /\ onStatus = "listening"
  /\ pos = 0
  /\ calls = <<>>

\* C24 (as claimed): whatever awa_result and awa_history hold, what is loaded
\* is a result or nothing, and the history is a list of results.
C24_LoadIsResilient ==
  /\ appResult.kind \in {"null", "response"}
  /\ generationHistory.kind = "array"

\* C27: the opening of the page and every reload, whatever the store holds
\* and whatever was going on, leave loading false and no handleGenerate call
\* running, and afterwards a call begins only with a click on an enabled
\* Generate button.
C27_RestoreStartsNothing ==
  /\ ~loading /\ inflight = <<>>
  /\ [][/\ Reload => (~loading' /\ inflight' = <<>>)
        /\ Len(inflight') > Len(inflight) => (Submit /\ ~buttonDisabled)]_vars

\* the page was reloaded while a generation was running over a stored result:
\* the result is back and nothing is running
C27_Witness ==
  /\ profile = Null
  /\ ~loading
  /\ inflight = <<>>
  /\ status = NoStatus
  /\ appResult = ResponseOf("r1")
  /\ localStorage["awa_result"] = Stored(JSONstringify(ResponseOf("r1")))
  /\ generationHistory = Arr(<<ResponseOf("r1"), ResponseOf("r2")>>)

\* the place of a stage in the pipeline; complete and error come last
stageRank(stage) ==
  IF \E i \in DOMAIN stages : stages[i].stage = stage
    THEN CHOOSE i \in DOMAIN stages : stages[i].stage = stage
    ELSE Len(stages) + 1

\* C25 (as claimed): while a generation runs, the stage shown never goes back
\* in the order orchestrating, researching, writing, assessing, refining,
\* personalizing; the generation finishes in complete when generateWriting
\* resolved and in error when it rejected; and after that no stage of the
\* pipeline is shown until the next generation.
C25_StagesInPipelineOrder ==
  [][/\ (inflight # <<>> /\ inflight' # <<>>) =>
          stageRank(currentStage(status', loading')) >= stageRank(currentStage(status, loading))
     /\ Resolves => currentStage(status', loading') = "complete"
     /\ Rejects => currentStage(status', loading') = "error"
     /\ (inflight = <<>> /\ inflight' = <<>>) =>
          currentStage(status', loading') \in {"complete", "error", "hidden"}]_vars

\* no timer is pending and no getProfile request is outstanding
LookupSettled == fetchTimer = "none" /\ profileRequests = {}

\* C26: once every getProfile request has settled, the form fields shown are
\* those of the user id entered last; a late response for an earlier user id
\* never overwrites them.
C26_FieldsFollowLatestUserId ==
  (LookupSettled /\ userId # "") => fields = shownFor(userId)

\* the stored item holds every field that item held, with the same value
keepsFieldsOf(item, stored) ==
  /\ stored.kind = "object"
  /\ item.firstName # Missing => stored.firstName = item.firstName
  /\ item.education # Missing => stored.education = item.education

\* C28: awa_form_data is not overwritten with the form's defaults at startup:
\* no write to it happens before the stored data is loaded into the form state,
\* a write carries the form state of that moment, and until the user changes
\* the form both the state and the key keep every field the key held at startup.
C28_StartupKeepsStoredForm ==
  /\ []((startForm.kind = "object" /\ ~edited) =>
         /\ keepsFieldsOf(startForm, formStorage["awa_form_data"])
         /\ isInitialized => keepsFieldsOf(startForm, stringifyForm(formData)))
  /\ [][formStorage'["awa_form_data"] \notin {formStorage["awa_form_data"], NoItem} =>
          /\ isInitialized
          /\ formStorage'["awa_form_data"] = stringifyForm(formData)]_vars

\* a stored form with a name and no list was loaded and written back, completed
C28_Witness ==
  /\ ~edited
  /\ isInitialized
  /\ formTimer = NoTimer
  /\ startForm = [kind |-> "object", firstName |-> "Ann", education |-> Missing]
  /\ formStorage["awa_form_data"] = stringifyForm([firstName |-> "Ann", education |-> "[]"])

\* C29: after a confirmed Clear All, and as long as the user changes nothing,
\* the keys awa_form_data and awa_accordion_state stay absent: no debounced save
\* writes them again.
C29_ClearedKeysStayAbsent ==
  cleared => \A k \in FormKeys : formStorage[k] = NoItem

\* C30: over any sequence of uploadFiles calls, a retry after a failure in a
\* batch included, the server accepts each pending file at most once.
C30_EachFileSentAtMostOnce ==
  \A f \in FileIds : sent[f] <= 1

====
